---- MODULE Spec2Model ----
(***************************************************************************)
(* State-machine model of cocotb/drivers/avalon.py:                        *)
(*   AvalonMaster  (blocking read/write behind a busy flag and an Event),  *)
(*   AvalonMemory  (latency-padding responder with a backing store),       *)
(*   AvalonSTPkts  (valid/ready packet streaming with idle injection).     *)
(* Coroutines are modelled one action per resumption: an action runs the   *)
(* code from one yield to the next.                                        *)
(***************************************************************************)
EXTENDS Integers, Sequences, FiniteSets, TLC

(***************************************************************************)
(* Bounds of the model.                                                    *)
(***************************************************************************)
NCallers == 3
MaxAddr == 1
MaxVal == 1
MaxLatency == 2
MaxWidth == 4
MaxLen == 9
MaxWords == 3
MaxOn == 2
MaxOff == 2
MaxReadyLatency == 1
MaxStrobeAge == 2
MaxRequests == 3
\* AvalonMemory.__init__: readlatency_min=1, readlatency_max=1
DefaultLatency == 1

Callers == 1..NCallers
Addr == 0..MaxAddr
Val == 0..MaxVal

(***************************************************************************)
(* Markers: queue slots of AvalonMemory._responses and signal values that  *)
(* are not integers of the data width.                                     *)
(***************************************************************************)
None == -1
Undefined == -2
XVal == -3
Undriven == -4
\* self.on is True: no valid generator, or an exhausted one
OnTrue == -9

MemTask == 0
EnvTask == -5
SlaveTask == -6
SinkTask == -7
STTask == -8
MemTaskB == -10
EnvTaskB == -11
OptionalSignals == {"read", "write", "readdata", "writedata", "waitrequest"}

VARIABLES
  phase,            \* scheduler: "edge" | "ro" | "nts" | "nro" (point of the clock cycle)
  runnable,         \* scheduler: tasks whose trigger has fired and that have not run yet
  signals,          \* optional signals present on the bus
  busy,             \* AvalonMaster.busy
  fired,            \* AvalonMaster.busy_event.fired
  pc,               \* per caller: position in read()/write()
  op,               \* per caller: [kind, addr, val] of the call
  data,             \* per caller: value read() returned (Undriven until then)
  address, read, write, writedata, readdata, readdatavalid,   \* bus signals
  waitrequest,      \* bus signal driven by the slave side (backpressure)
  pcSlave,          \* the slave logic driving waitrequest: "edge" | "off"
  mem,              \* AvalonMemory._mem: function from the written addresses
  responses,        \* AvalonMemory._responses
  readlatency_min, readlatency_max,
  pcMem,            \* AvalonMemory._respond: "edge" | "ro" | "dead" | "none"
  warned,           \* number of log.warning calls in the last settle step of _respond
  pcEnv,            \* a DUT master driving the strobes directly: "edge" | "off"
  ages,             \* history: per response slot, edges since the read was observed
  drivenAge,        \* history: age of the response driven at the last edge (None if none)
  expect,           \* history: per caller, the value a read must return, when known
  strobeAge,        \* history: per caller, clock edges since its read strobe was asserted
  lastWrite,        \* history: per address, the value of the last completed write, when known
  \* AvalonSTPkts
  kind,             \* "string" (_send_string) | "iterable" (_send_iterable)
  sync,             \* the sync argument of the send
  bus_width,        \* len(self.bus.data) / 8
  hasReady,         \* the bus has a ready signal
  readyLatency,     \* self.config["readyLatency"]
  sent,             \* history: the byte string handed to _send_string
  st_pc,            \* position in _send_string/_send_iterable/_wait_ready
  string,           \* _send_string: the bytes not sent yet
  pktLeft,          \* _send_iterable: the number of words the iterable still yields
  firstword,
  on, off,          \* ValidatedBusDriver.on / .off
  gap_i,            \* iterations left of "for i in range(self.off)"
  valid, st_data, startofpacket, endofpacket, empty,   \* streaming bus signals
  ready,            \* streaming bus signal driven by the sink
  pcSink,           \* the sink logic driving ready: "edge" | "off"
  received,         \* history: the words the sink took, one per accepting clock edge
  lowRun,           \* history: clock edges in a row at which valid was low
  \* a second AvalonMemory (dual-port RAM), on a bus of its own
  addressB, readB, writeB, writedataB, readdataB, readdatavalidB,   \* its bus signals
  responsesB,       \* its _responses
  pcMemB,           \* its _respond: "edge" | "ro" | "none"
  pcEnvB,           \* the DUT master driving its strobes: "edge" | "off"
  memB,             \* the dict it creates for itself when it is given no memory
  reqLeft,          \* the strobed port cycles the DUT master may still drive
  sharedB,          \* it was constructed with memory = the first instance's _mem
  written,          \* history: per address of the shared store, the last value a write stored
  \* issue_348: DualMonitor
  now,              \* simulation time
  clk,              \* the value of the monitored signal
  clkNext,          \* the value written to the signal in this time step (None if none)
  edge_type,        \* "rising" (RisingEdge) | "falling" (FallingEdge) | "either" (Edge)
  monitor_edges,    \* DualMonitor.monitor_edges
  armed,            \* the monitors suspended in "yield edge(signal)"
  monRun,           \* the monitors whose edge trigger fired and that have not run yet
  timerRun,         \* the tasks whose Timer fired and that have not run yet
  genPc,            \* clock_gen: "off" | "low" | "high" | "done"
  genX,             \* clock_gen: the loop variable x
  startPc,          \* DualMonitor.start: "off" | "init" | "timer" | "passed" | "failed"
  occurred          \* history: edges of the monitored kind since the monitors were forked

schedVars == <<phase, runnable>>
lockVars == <<busy, fired>>
callVars == <<pc, op, data, expect, lastWrite>>
masterBus == <<address, read, write, writedata>>
slaveBus == <<readdata, readdatavalid>>
waitVars == <<waitrequest, pcSlave>>
memVars == <<mem, responses, pcMem, warned, ages, drivenAge>>
cfgVars == <<signals, readlatency_min, readlatency_max, pcEnv>>
stCfg == <<kind, sync, bus_width, hasReady, readyLatency, sent>>
stLocal == <<st_pc, string, pktLeft, firstword, on, off, gap_i>>
stBus == <<valid, st_data, startofpacket, endofpacket, empty>>
sinkVars == <<ready, pcSink>>
stHist == <<received, lowRun>>
stVars == <<stCfg, stLocal, stBus, sinkVars, stHist>>
dualVars == <<addressB, readB, writeB, writedataB, readdataB, readdatavalidB,
              responsesB, pcMemB, pcEnvB, memB, sharedB, reqLeft>>
monVars == <<now, clk, clkNext, edge_type, monitor_edges, armed, monRun, timerRun,
             genPc, genX, startPc, occurred>>
vars == <<schedVars, lockVars, callVars, masterBus, slaveBus, waitVars, memVars, cfgVars, stVars,
          monVars, strobeAge, dualVars, written>>

NoOp == [kind |-> "none", addr |-> 0, val |-> 0]

(***************************************************************************)
(* Scheduler (cocotb.scheduler is not part of the sources here; modelled   *)
(* from the specification, sections 4.1 and 5): within one simulation step *)
(* the tasks waiting on the clock edge run first, then the tasks waiting   *)
(* on the settle point (ReadOnly), then the tasks waiting on NextTimeStep. *)
(* A task that yields a trigger of the current phase waits for the next    *)
(* occurrence.                                                             *)
(***************************************************************************)
\* A clock cycle is the time step of the rising edge ("edge", then its settle point
\* "ro") followed by a later time step before the next edge ("nts", then its
\* settle point "nro").
NextPhase(p) ==
  CASE p = "edge" -> "ro" [] p = "ro" -> "nts" [] p = "nts" -> "nro" [] OTHER -> "edge"

\* The trigger that fires in a phase.
Fires(p) == IF p = "nro" THEN "ro" ELSE p

Settle == phase \in {"ro", "nro"}

\* The trigger the streaming driver is suspended on, by its position.
STTrigger ==
  CASE st_pc \in {"clk", "gap", "rdy_edge", "tail"} -> "edge"
    [] st_pc = "rdy_ro" -> "ro"
    [] OTHER -> "none"

\* The trigger a caller is suspended on, by its position.
CallerTrigger(c) ==
  CASE pc[c] \in {"r_edge1", "r_edge2", "w_edge1", "w_edge2", "r_wedge", "w_wedge"} -> "edge"
    [] pc[c] \in {"r_ro", "r_wro", "w_wro"} -> "ro"
    [] pc[c] \in {"r_nts", "r_wnts", "w_wnts"} -> "nts"
    [] pc[c] = "lockwait" -> "event"
    [] pc[c] = "lockwoken" -> "woken"
    [] OTHER -> "none"

Waiting(p) ==
  {c \in Callers : CallerTrigger(c) = p}
    \cup (IF pcMem = p THEN {MemTask} ELSE {})
    \cup (IF pcEnv = p THEN {EnvTask} ELSE {})
    \cup (IF pcSlave = p THEN {SlaveTask} ELSE {})
    \cup (IF pcSink = p THEN {SinkTask} ELSE {})
    \cup (IF pcMemB = p THEN {MemTaskB} ELSE {})
    \cup (IF pcEnvB = p THEN {EnvTaskB} ELSE {})
    \cup (IF STTrigger = p THEN {STTask} ELSE {})

\* The sink is clocked logic: at the rising edge it takes the word on the bus when
\* valid (and ready, when the bus has one) was high before the edge.
Accepts == valid = 1 /\ (hasReady => ready = 1)

BusWord ==
  [data |-> st_data, startofpacket |-> startofpacket,
   endofpacket |-> endofpacket, empty |-> empty]

\* A caller inside read() that has asserted its read strobe.
ReadStrobed(c) == pc[c] \in {"r_wro", "r_wedge", "r_wnts", "r_edge2", "r_ro", "r_nts"}

\* Time advances to the next phase once every resumed task has run.
Tick ==
  /\ runnable = {}
  /\ phase' = NextPhase(phase)
  /\ runnable' = Waiting(Fires(NextPhase(phase)))
  /\ IF NextPhase(phase) = "edge" /\ st_pc # "idle"
       THEN /\ received' = IF Accepts THEN Append(received, BusWord) ELSE received
            /\ lowRun' = IF valid = 1 THEN 0 ELSE IF lowRun > MaxOff THEN lowRun ELSE lowRun + 1
       ELSE UNCHANGED stHist
  /\ strobeAge' = IF NextPhase(phase) = "edge"
                     THEN [c \in Callers |-> IF ReadStrobed(c) /\ strobeAge[c] < MaxStrobeAge
                                               THEN strobeAge[c] + 1 ELSE strobeAge[c]]
                     ELSE strobeAge
  /\ UNCHANGED <<lockVars, callVars, masterBus, slaveBus, waitVars, memVars, cfgVars, dualVars, written, monVars,
                 stCfg, stLocal, stBus, sinkVars>>

(***************************************************************************)
(* AvalonMaster._acquire_lock / _release_lock                              *)
(***************************************************************************)
FirstEdge(k) == IF k = "read" THEN "r_edge1" ELSE "w_edge1"

\* _acquire_lock up to its yield, or to its end when the lock is free.
acquire_lock(c, k) ==
  IF busy
    THEN /\ pc' = [pc EXCEPT ![c] = "lockwait"]
         /\ UNCHANGED lockVars
    ELSE /\ fired' = FALSE
         /\ busy' = TRUE
         /\ pc' = [pc EXCEPT ![c] = FirstEdge(k)]

\* Event.set(): every task waiting on the event is resumed in this phase.
EventWaiters == {c \in Callers : pc[c] = "lockwait"}

release_lock_unset(c) ==
  /\ busy' = FALSE
  /\ fired' = fired
  /\ runnable' = runnable \ {c}

\* _release_lock: clear the flag and set the event, which wakes every waiter.
release_lock(c) ==
  /\ busy' = FALSE
  /\ fired' = TRUE
  /\ runnable' = (runnable \ {c}) \cup EventWaiters

\* A woken waiter continues _acquire_lock after its yield.
resume_acquire(c) ==
  /\ fired' = FALSE
  /\ busy' = TRUE
  /\ pc' = [pc EXCEPT ![c] = FirstEdge(op[c].kind)]

Woken(c) == [q \in Callers |-> IF q \in EventWaiters THEN "lockwoken" ELSE pc[q]]

LockResume(c) ==
  /\ pc[c] = "lockwoken"
  /\ c \in runnable
  /\ resume_acquire(c)
  /\ runnable' = runnable \ {c}
  /\ UNCHANGED <<phase, op, data, expect, lastWrite, masterBus, slaveBus, waitVars, memVars, cfgVars, dualVars, written, strobeAge, monVars, stVars>>

(***************************************************************************)
(* BusDriver._wait_for_nsignal(waitrequest) (cocotb/drivers/__init__.py is *)
(* not part of the sources here; modelled from the specification, section  *)
(* 4.3: the strobe is held until the signal de-asserts, polled at the      *)
(* settle point once per edge, returning at the next time step).           *)
(***************************************************************************)
WaitPos(c, suffix) == IF op[c].kind = "read" THEN "r_" \o suffix ELSE "w_" \o suffix

\* Settle point: waitrequest low ends the wait, high waits for the next edge.
WaitSample(c) ==
  /\ pc[c] \in {"r_wro", "w_wro"} /\ Settle /\ c \in runnable
  /\ pc' = [pc EXCEPT ![c] = IF waitrequest = 0 THEN WaitPos(c, "wnts") ELSE WaitPos(c, "wedge")]
  /\ runnable' = runnable \ {c}
  /\ UNCHANGED <<phase, lockVars, op, data, expect, lastWrite, masterBus, slaveBus, waitVars, memVars, cfgVars, dualVars, written, strobeAge, monVars, stVars>>

\* An edge while waitrequest was high: poll again at the settle point.
WaitEdge(c) ==
  /\ pc[c] \in {"r_wedge", "w_wedge"} /\ phase = "edge" /\ c \in runnable
  /\ pc' = [pc EXCEPT ![c] = WaitPos(c, "wro")]
  /\ runnable' = runnable \ {c}
  /\ UNCHANGED <<phase, lockVars, op, data, expect, lastWrite, masterBus, slaveBus, waitVars, memVars, cfgVars, dualVars, written, strobeAge, monVars, stVars>>

\* The next time step after waitrequest was seen low: back in read()/write(),
\* which yields the clock edge.
WaitReturn(c) ==
  /\ pc[c] \in {"r_wnts", "w_wnts"} /\ phase = "nts" /\ c \in runnable
  /\ pc' = [pc EXCEPT ![c] = WaitPos(c, "edge2")]
  /\ runnable' = runnable \ {c}
  /\ UNCHANGED <<phase, lockVars, op, data, expect, lastWrite, masterBus, slaveBus, waitVars, memVars, cfgVars, dualVars, written, strobeAge, monVars, stVars>>

\* The slave logic drives waitrequest, any value, once per clock edge.
SlaveDrive ==
  /\ pcSlave = "edge" /\ phase = "edge" /\ SlaveTask \in runnable
  /\ runnable' = runnable \ {SlaveTask}
  /\ waitrequest' \in {0, 1}
  /\ UNCHANGED <<phase, lockVars, callVars, masterBus, slaveBus, pcSlave, memVars, cfgVars, dualVars, written, strobeAge, monVars, stVars>>

(***************************************************************************)
(* AvalonMaster.read                                                       *)
(***************************************************************************)
WritesInFlight(a) ==
  {c \in Callers : op[c].kind = "write" /\ op[c].addr = a
                   /\ pc[c] \in {"lockwait", "lockwoken", "w_edge1", "w_edge2", "failed"}}

\* Callers are numbered in the order of their calls.  A call is made by test code
\* that runs on a clock edge or at the start of a time step; a call made at the
\* settle point has the effect of one made first in the next time step.
IsNextCaller(c) == ~Settle /\ \A q \in Callers : q < c => pc[q] # "idle"

read_call_lock_first(c, a) ==
  IF "read" \notin signals
    THEN /\ fired' = FALSE
         /\ busy' = TRUE
         /\ pc' = [pc EXCEPT ![c] = "r_caperror"]
         /\ UNCHANGED <<op, expect>>
    ELSE /\ op' = [op EXCEPT ![c] = [kind |-> "read", addr |-> a, val |-> 0]]
         /\ expect' = [expect EXCEPT ![c] = lastWrite[a]]
         /\ acquire_lock(c, "read")

\* read() from the call to its first yield.
read_call(c, a) ==
  IF "read" \notin signals
    THEN /\ pc' = [pc EXCEPT ![c] = "r_caperror"]
         /\ UNCHANGED <<lockVars, op, expect>>
    ELSE /\ op' = [op EXCEPT ![c] = [kind |-> "read", addr |-> a, val |-> 0]]
         /\ expect' = [expect EXCEPT ![c] = lastWrite[a]]
         /\ acquire_lock(c, "read")

ReadCall(c, a) ==
  /\ pc[c] = "idle" /\ IsNextCaller(c)
  /\ read_call(c, a)
  /\ UNCHANGED <<schedVars, data, lastWrite, masterBus, slaveBus, waitVars, memVars, cfgVars, dualVars, written, strobeAge, monVars, stVars>>

drive_read_unstrobed(c) == address' = op[c].addr /\ read' = read

\* "self.bus.address <= address; self.bus.read <= 1"
drive_read(c) == address' = op[c].addr /\ read' = 1

after_strobe_sample == IF "waitrequest" \in signals THEN "r_wro" ELSE "r_ro"

\* read() after the strobe is asserted: wait for waitrequest to be low when the
\* bus has one, then "yield RisingEdge(self.clock)".
after_strobe == IF "waitrequest" \in signals THEN "r_wro" ELSE "r_edge2"

\* First clock edge: drive the address and assert the read strobe.
ReadEdge1(c) ==
  /\ pc[c] = "r_edge1" /\ phase = "edge" /\ c \in runnable
  /\ drive_read(c)
  /\ strobeAge' = [strobeAge EXCEPT ![c] = 0]
  /\ pc' = [pc EXCEPT ![c] = after_strobe]
  /\ runnable' = runnable \ {c}
  /\ UNCHANGED <<phase, lockVars, op, data, expect, lastWrite, write, writedata,
                 slaveBus, waitVars, memVars, cfgVars, dualVars, written, monVars, stVars>>

\* Second clock edge: de-assert the read strobe, then wait for the settle point.
ReadEdge2(c) ==
  /\ pc[c] = "r_edge2" /\ phase = "edge" /\ c \in runnable
  /\ read' = 0
  /\ pc' = [pc EXCEPT ![c] = "r_ro"]
  /\ runnable' = runnable \ {c}
  /\ UNCHANGED <<phase, lockVars, op, data, expect, lastWrite, address, write, writedata,
                 slaveBus, waitVars, memVars, cfgVars, dualVars, written, strobeAge, monVars, stVars>>

\* Settle point: sample readdata (an AttributeError when the bus has no readdata).
ReadSample(c) ==
  /\ pc[c] = "r_ro" /\ Settle /\ c \in runnable
  /\ IF "readdata" \in signals
       THEN /\ data' = [data EXCEPT ![c] = readdata]
            /\ pc' = [pc EXCEPT ![c] = "r_nts"]
       ELSE /\ pc' = [pc EXCEPT ![c] = "failed"]
            /\ UNCHANGED data
  /\ runnable' = runnable \ {c}
  /\ UNCHANGED <<phase, lockVars, op, expect, lastWrite, masterBus, slaveBus, waitVars, memVars, cfgVars, dualVars, written, strobeAge, monVars, stVars>>

\* Next time step: release the lock and return the sampled value.
ReadFinish(c) ==
  /\ pc[c] = "r_nts" /\ phase = "nts" /\ c \in runnable
  /\ release_lock(c)
  /\ pc' = [Woken(c) EXCEPT ![c] = "done"]
  /\ UNCHANGED <<phase, op, data, expect, lastWrite, masterBus, slaveBus, waitVars, memVars, cfgVars, dualVars, written, strobeAge, monVars, stVars>>

(***************************************************************************)
(* AvalonMaster.write                                                      *)
(***************************************************************************)
\* write() from the call to its first yield.
write_call(c, a, v) ==
  IF "write" \notin signals
    THEN /\ pc' = [pc EXCEPT ![c] = "w_caperror"]
         /\ UNCHANGED <<lockVars, op, expect, lastWrite>>
    ELSE /\ op' = [op EXCEPT ![c] = [kind |-> "write", addr |-> a, val |-> v]]
         /\ lastWrite' = [lastWrite EXCEPT ![a] = None]
         /\ expect' = [q \in Callers |->
                         IF op[q].kind = "read" /\ op[q].addr = a /\ pc[q] # "done"
                           THEN None ELSE expect[q]]
         /\ acquire_lock(c, "write")

WriteCall(c, a, v) ==
  /\ pc[c] = "idle" /\ IsNextCaller(c)
  /\ write_call(c, a, v)
  /\ UNCHANGED <<schedVars, data, masterBus, slaveBus, waitVars, memVars, cfgVars, dualVars, written, strobeAge, monVars, stVars>>

\* First clock edge: drive address, writedata (an AttributeError when the bus has
\* no writedata) and the write strobe.
WriteEdge1(c) ==
  /\ pc[c] = "w_edge1" /\ phase = "edge" /\ c \in runnable
  /\ address' = op[c].addr
  /\ IF "writedata" \in signals
       THEN /\ writedata' = op[c].val
            /\ write' = 1
            /\ pc' = [pc EXCEPT ![c] = IF "waitrequest" \in signals THEN "w_wro" ELSE "w_edge2"]
       ELSE /\ pc' = [pc EXCEPT ![c] = "failed"]
            /\ UNCHANGED <<writedata, write>>
  /\ runnable' = runnable \ {c}
  /\ UNCHANGED <<phase, lockVars, op, data, expect, lastWrite, read, slaveBus, waitVars, memVars, cfgVars, dualVars, written, strobeAge, monVars, stVars>>

\* Second clock edge: de-assert the write strobe and release the lock.
WriteEdge2(c) ==
  /\ pc[c] = "w_edge2" /\ phase = "edge" /\ c \in runnable
  /\ write' = 0
  /\ release_lock(c)
  /\ pc' = [Woken(c) EXCEPT ![c] = "done"]
  /\ lastWrite' = [lastWrite EXCEPT ![op[c].addr] =
                     IF WritesInFlight(op[c].addr) = {c} THEN op[c].val ELSE None]
  /\ UNCHANGED <<phase, op, data, expect, address, read, writedata, slaveBus, waitVars, memVars, cfgVars, dualVars, written, strobeAge, monVars, stVars>>

(***************************************************************************)
(* AvalonMemory                                                            *)
(***************************************************************************)
readable == "readdata" \in signals
writeable == "writedata" \in signals

pad_skipped(q, l) == q

pad_filled(q, l) == IF Len(q) < l THEN q \o [i \in 1..(l - Len(q)) |-> 0] ELSE q

pad_over(q, l) == IF Len(q) < l + 1 THEN q \o [i \in 1..(l + 1 - Len(q)) |-> None] ELSE q

\* _pad with the drawn latency l: append None while the queue is shorter than l.
pad(q, l) == IF Len(q) < l THEN q \o [i \in 1..(l - Len(q)) |-> None] ELSE q

lookup_default(a) == IF a \in DOMAIN mem THEN mem[a] ELSE 0

\* The slot appended for a read of address a.
lookup(a) == IF a \in DOMAIN mem THEN mem[a] ELSE Undefined

\* self._mem[addr] = data
store(m, a, d) == [x \in DOMAIN m \cup {a} |-> IF x = a THEN d ELSE m[x]]

\* The value driven on readdata for a popped slot.
drive(resp) == IF resp = Undefined THEN XVal ELSE resp

\* _respond at the clock edge: pop the oldest slot and drive it, or drive
\* readdatavalid low.
MemEdge ==
  /\ pcMem = "edge" /\ phase = "edge" /\ MemTask \in runnable
  /\ LET resp == IF responses # <<>> THEN Head(responses) ELSE None
     IN /\ responses' = IF responses # <<>> THEN Tail(responses) ELSE responses
        /\ ages' = IF ages # <<>> THEN [i \in 1..(Len(ages) - 1) |-> ages[i + 1] + 1] ELSE ages
        /\ IF resp # None
             THEN /\ readdata' = drive(resp)
                  /\ readdatavalid' = 1
                  /\ drivenAge' = Head(ages) + 1
             ELSE /\ readdatavalid' = 0
                  /\ drivenAge' = None
                  /\ UNCHANGED readdata
  /\ pcMem' = "ro"
  /\ runnable' = runnable \ {MemTask}
  /\ UNCHANGED <<phase, lockVars, callVars, masterBus, waitVars, mem, warned, cfgVars, dualVars, written, strobeAge, monVars, stVars>>

respond_read_written(q, l) ==
  Append(pad(q, l), IF writeable /\ write = 1 THEN writedata ELSE lookup(address))

\* The queue after the read branch of _respond, for the drawn latency l.
respond_read(q, l) == Append(pad(q, l), lookup(address))

\* _respond at the settle point: sample the strobes; a read pads the queue and
\* appends its slot, then a write updates the store.
MemSettle ==
  /\ pcMem = "ro" /\ Settle /\ MemTask \in runnable
  /\ runnable' = runnable \ {MemTask}
  /\ IF readable /\ "read" \notin signals
       THEN \* self.bus.read raises AttributeError
            /\ pcMem' = "dead"
            /\ warned' = 0
            /\ UNCHANGED <<mem, responses, ages>>
       ELSE /\ IF readable /\ read = 1
                 THEN \E l \in readlatency_min..readlatency_max :
                        /\ responses' = respond_read(responses, l)
                        /\ ages' = Append(pad(ages, l), 0)
                        /\ warned' = IF address \in DOMAIN mem THEN 0 ELSE 1
                 ELSE /\ warned' = 0
                      /\ UNCHANGED <<responses, ages>>
            /\ IF writeable /\ "write" \notin signals
                 THEN \* self.bus.write raises AttributeError
                      /\ pcMem' = "dead"
                      /\ UNCHANGED mem
                 ELSE /\ pcMem' = "edge"
                      /\ mem' = IF writeable /\ write = 1
                                  THEN store(mem, address, writedata) ELSE mem
  /\ written' = IF writeable /\ "write" \in signals /\ write = 1
                   /\ ~(readable /\ "read" \notin signals)
                   THEN [written EXCEPT ![address] = writedata] ELSE written
  /\ UNCHANGED <<phase, lockVars, callVars, masterBus, slaveBus, waitVars, drivenAge, cfgVars, dualVars, strobeAge, monVars, stVars>>

(***************************************************************************)
(* A DUT master that drives the strobes directly, any pattern, one choice  *)
(* per clock edge.                                                         *)
(***************************************************************************)
EnvDrive ==
  /\ pcEnv = "edge" /\ phase = "edge" /\ EnvTask \in runnable
  /\ runnable' = runnable \ {EnvTask}
  /\ \E r \in {0, 1}, w \in {0, 1}, a \in Addr, d \in Val \cup {writedata} :
       /\ r = 1 => "read" \in signals
       /\ w = 1 => "write" \in signals /\ "writedata" \in signals
       /\ r = 0 /\ w = 0 => a = address
       /\ w = 0 => d = writedata
       /\ w = 1 => d \in Val
       /\ read' = r /\ write' = w /\ address' = a /\ writedata' = d
  /\ UNCHANGED <<phase, lockVars, callVars, slaveBus, waitVars, memVars, cfgVars, dualVars, written, strobeAge, monVars, stVars>>

(***************************************************************************)
(* A second AvalonMemory on a bus of its own, constructed with the same    *)
(* latency arguments and, for a dual-port RAM, with memory = the first     *)
(* instance's dictionary.  Its bus has the same optional signals.          *)
(***************************************************************************)
uses_copy == FALSE

\* "if memory is None: self._mem = {} else: self._mem = memory": the instance
\* works on the dictionary it was given, not on one of its own.
uses_given_memory == sharedB

\* self._mem of the second instance.
StoreB == IF uses_given_memory THEN mem ELSE memB

lookupB(a) == IF a \in DOMAIN StoreB THEN StoreB[a] ELSE Undefined

\* _respond of the second instance at the clock edge.
MemEdgeB ==
  /\ pcMemB = "edge" /\ phase = "edge" /\ MemTaskB \in runnable
  /\ LET resp == IF responsesB # <<>> THEN Head(responsesB) ELSE None
     IN /\ responsesB' = IF responsesB # <<>> THEN Tail(responsesB) ELSE responsesB
        /\ IF resp # None
             THEN /\ readdataB' = drive(resp)
                  /\ readdatavalidB' = 1
             ELSE /\ readdatavalidB' = 0
                  /\ UNCHANGED readdataB
  /\ pcMemB' = "ro"
  /\ runnable' = runnable \ {MemTaskB}
  /\ UNCHANGED <<addressB, readB, writeB, writedataB, pcEnvB, memB, sharedB, reqLeft, written>>
  /\ UNCHANGED <<phase, lockVars, callVars, masterBus, slaveBus, waitVars, memVars, cfgVars,
                 strobeAge, monVars, stVars>>

\* _respond of the second instance at the settle point.
MemSettleB ==
  /\ pcMemB = "ro" /\ Settle /\ MemTaskB \in runnable
  /\ runnable' = runnable \ {MemTaskB}
  /\ IF readable /\ "read" \notin signals
       THEN /\ pcMemB' = "dead"
            /\ UNCHANGED <<mem, memB, responsesB, written>>
       ELSE /\ IF readable /\ readB = 1
                 THEN \E l \in readlatency_min..readlatency_max :
                        responsesB' = Append(pad(responsesB, l), lookupB(addressB))
                 ELSE UNCHANGED responsesB
            /\ IF writeable /\ "write" \notin signals
                 THEN /\ pcMemB' = "dead"
                      /\ UNCHANGED <<mem, memB, written>>
                 ELSE /\ pcMemB' = "edge"
                      /\ IF writeable /\ writeB = 1
                           THEN /\ written' = IF sharedB
                                                 THEN [written EXCEPT ![addressB] = writedataB]
                                                 ELSE written
                                /\ IF uses_given_memory
                                     THEN mem' = store(mem, addressB, writedataB) /\ UNCHANGED memB
                                     ELSE memB' = store(memB, addressB, writedataB) /\ UNCHANGED mem
                           ELSE UNCHANGED <<mem, memB, written>>
  /\ UNCHANGED <<addressB, readB, writeB, writedataB, readdataB, readdatavalidB, pcEnvB, sharedB,
                 reqLeft>>
  /\ UNCHANGED <<phase, lockVars, callVars, masterBus, slaveBus, waitVars,
                 responses, pcMem, warned, ages, drivenAge, cfgVars, strobeAge, monVars, stVars>>

\* The strobes, address and data a DUT master may drive on one port at an edge,
\* given what the port carries now: an idle port keeps its address and data.
PortDrives(a0, d0) ==
  {p \in [r : {0, 1}, w : {0, 1}, a : Addr, d : Val \cup {d0}] :
     /\ (p.r = 0 /\ p.w = 0) => p.a = a0
     /\ p.w = 0 => p.d = d0
     /\ p.w = 1 => p.d \in Val}

Strobes(p) == IF p.r = 1 \/ p.w = 1 THEN 1 ELSE 0

\* The DUT master of the dual-port RAM: one choice per clock edge for both
\* ports, any pattern of at most MaxRequests strobed port cycles in all.
EnvDriveDual ==
  /\ pcEnvB = "edge" /\ phase = "edge" /\ EnvTaskB \in runnable
  /\ runnable' = runnable \ {EnvTaskB}
  /\ \E pa \in PortDrives(address, writedata), pb \in PortDrives(addressB, writedataB) :
       /\ Strobes(pa) + Strobes(pb) <= reqLeft
       /\ reqLeft' = reqLeft - (Strobes(pa) + Strobes(pb))
       /\ read' = pa.r /\ write' = pa.w /\ address' = pa.a /\ writedata' = pa.d
       /\ readB' = pb.r /\ writeB' = pb.w /\ addressB' = pb.a /\ writedataB' = pb.d
  /\ UNCHANGED <<readdataB, readdatavalidB, responsesB, pcMemB, pcEnvB, memB, sharedB, written>>
  /\ UNCHANGED <<phase, lockVars, callVars, slaveBus, waitVars, memVars, cfgVars,
                 strobeAge, monVars, stVars>>

\* The second port before its first edge.
DualBus ==
  /\ addressB = 0 /\ readB = 0 /\ writeB = 0 /\ writedataB = Undriven
  /\ readdataB = Undriven /\ readdatavalidB = 0
  /\ responsesB = <<>> /\ memB = <<>>
  /\ written = [a \in Addr |-> None]

\* No second instance.
DualIdle == DualBus /\ pcMemB = "none" /\ pcEnvB = "off" /\ sharedB = FALSE /\ reqLeft = 0

(***************************************************************************)
(* ValidatedBusDriver._next_valids (cocotb/drivers/__init__.py is not part *)
(* of the sources here; modelled from the specification, section 4.5): the *)
(* on/off generator yields a fresh pair, on a positive budget of words and *)
(* off a number of idle cycles, or it is exhausted, which leaves the       *)
(* driver always on.                                                       *)
(***************************************************************************)
NextValids == {<<n, f>> : n \in 1..MaxOn, f \in 0..MaxOff} \cup {<<OnTrue, off>>}

(***************************************************************************)
(* AvalonSTPkts._send_string / _send_iterable / _wait_ready                *)
(***************************************************************************)
Min(a, b) == IF a < b THEN a ELSE b

\* "if self.on is not True and self.on: self.on -= 1"
consume(n) == IF n # OnTrue /\ n # 0 THEN n - 1 ELSE n

gap_short(f) == f - 1

\* "for i in range(self.off)": the number of clock edges the gap waits for.
gap_yields(f) == f

\* word.buff = data: the bytes of the word, the unused byte lanes zero.
word_buff(d) == d \o [i \in 1..(bus_width - Len(d)) |-> 0]

\* "len(string) <= bus_width": the word that is driven now is the last one.
is_last(str) == Len(str) <= bus_width

last_empty_used(str) == Len(str)

\* "bus_width - len(string)" on the last word.
last_empty(str) == bus_width - Len(str)

\* "string[bus_width:]"
rest(str) == SubSeq(str, bus_width + 1, Len(str))

\* The words a caller's iterable may yield: any flags, no data of interest.
IterWords ==
  {[data |-> word_buff(<<>>), startofpacket |-> x, endofpacket |-> y, empty |-> 0] :
     x \in {0, 1}, y \in {0, 1}}

\* The position after a word has been driven and acknowledged: the loop test.
LoopTop(more) == IF more THEN "clk" ELSE "tail"

\* _send_string, lines 331-360: drive one word with valid high.  b holds the
\* values of startofpacket, endofpacket and empty driven before in this step.
emit_string(n, f, b) ==
  /\ on' = consume(n) /\ off' = f
  /\ valid' = 1
  /\ startofpacket' = IF firstword THEN 1 ELSE 0
  /\ firstword' = FALSE
  /\ st_data' = word_buff(SubSeq(string, 1, Min(Len(string), bus_width)))
  /\ IF is_last(string)
       THEN /\ endofpacket' = 1
            /\ empty' = last_empty(string)
            /\ string' = <<>>
       ELSE /\ endofpacket' = b.endofpacket
            /\ empty' = IF firstword THEN 0 ELSE b.empty
            /\ string' = rest(string)
  /\ st_pc' = IF hasReady THEN "rdy_ro"
              ELSE LoopTop(~is_last(string) /\ rest(string) # <<>>)
  /\ UNCHANGED <<pktLeft, gap_i>>

\* _send_iterable, lines 392-402: drive the word the iterable yielded.
emit_iterable(n, f) ==
  /\ on' = consume(n) /\ off' = f
  /\ \E word \in IterWords :
       /\ st_data' = word.data
       /\ startofpacket' = word.startofpacket
       /\ endofpacket' = word.endofpacket
       /\ empty' = word.empty
  /\ valid' = 1
  /\ firstword' = FALSE
  /\ pktLeft' = pktLeft - 1
  /\ st_pc' = IF hasReady THEN "rdy_ro" ELSE LoopTop(pktLeft - 1 > 0)
  /\ UNCHANGED <<string, gap_i>>

emit(n, f, b) == IF kind = "string" THEN emit_string(n, f, b) ELSE emit_iterable(n, f)

\* The loop body from "if not self.on" to the next yield: an exhausted budget
\* drives valid low and waits self.off edges, then redraws on/off.
body(b) ==
  IF on = 0 /\ gap_yields(off) > 0
    THEN /\ valid' = 0
         /\ startofpacket' = b.startofpacket
         /\ endofpacket' = b.endofpacket
         /\ empty' = b.empty
         /\ gap_i' = gap_yields(off) - 1
         /\ st_pc' = "gap"
         /\ firstword' = (firstword /\ kind = "string")
         /\ UNCHANGED <<string, pktLeft, on, off, st_data>>
    ELSE \E nv \in (IF on = 0 THEN NextValids ELSE {<<on, off>>}) : emit(nv[1], nv[2], b)

Driven == [startofpacket |-> startofpacket, endofpacket |-> endofpacket, empty |-> empty]
Defaults == [startofpacket |-> 0, endofpacket |-> 0, empty |-> 0]

HasWords == IF kind = "string" THEN string # <<>> ELSE pktLeft > 0

\* _driver_send: the call, up to the first yield.  _send_string drives defaults
\* first; with sync the first word waits for a clock edge.
SendCall ==
  /\ st_pc = "idle" /\ ~Settle
  /\ IF ~HasWords
       THEN /\ st_pc' = "tail"
            /\ IF kind = "string"
                 THEN empty' = 0 /\ startofpacket' = 0 /\ endofpacket' = 0 /\ valid' = 0
                 ELSE UNCHANGED <<empty, startofpacket, endofpacket, valid>>
            /\ UNCHANGED <<string, pktLeft, firstword, on, off, gap_i, st_data>>
       ELSE IF sync
         THEN /\ st_pc' = "clk"
              /\ IF kind = "string"
                   THEN empty' = 0 /\ startofpacket' = 0 /\ endofpacket' = 0 /\ valid' = 0
                   ELSE UNCHANGED <<empty, startofpacket, endofpacket, valid>>
              /\ UNCHANGED <<string, pktLeft, firstword, on, off, gap_i, st_data>>
         ELSE body(IF kind = "string" THEN Defaults ELSE Driven)
  /\ UNCHANGED <<schedVars, lockVars, callVars, masterBus, slaveBus, waitVars, memVars, cfgVars, dualVars, written, strobeAge, monVars,
                 stCfg, sinkVars, stHist>>

\* The clock edge at the top of the loop.
ClkEdge ==
  /\ st_pc = "clk" /\ phase = "edge" /\ STTask \in runnable
  /\ body(Driven)
  /\ runnable' = runnable \ {STTask}
  /\ UNCHANGED <<phase, lockVars, callVars, masterBus, slaveBus, waitVars, memVars, cfgVars, dualVars, written, strobeAge, monVars,
                 stCfg, sinkVars, stHist>>

\* A clock edge inside the gap: wait on, or redraw on/off and drive the word.
GapEdge ==
  /\ st_pc = "gap" /\ phase = "edge" /\ STTask \in runnable
  /\ IF gap_i > 0
       THEN /\ gap_i' = gap_i - 1
            /\ UNCHANGED <<st_pc, string, pktLeft, firstword, on, off, stBus>>
       ELSE \E nv \in NextValids : emit(nv[1], nv[2], Driven)
  /\ runnable' = runnable \ {STTask}
  /\ UNCHANGED <<phase, lockVars, callVars, masterBus, slaveBus, waitVars, memVars, cfgVars, dualVars, written, strobeAge, monVars,
                 stCfg, sinkVars, stHist>>

wait_ready_inverted == IF ready = 0 THEN LoopTop(HasWords) ELSE "rdy_edge"

wait_ready_unchecked == LoopTop(HasWords)

\* _wait_ready at the settle point: ready high ends the wait, low waits an edge.
wait_ready_sample == IF ready = 1 THEN LoopTop(HasWords) ELSE "rdy_edge"

RdyRO ==
  /\ st_pc = "rdy_ro" /\ Settle /\ STTask \in runnable
  /\ st_pc' = wait_ready_sample
  /\ runnable' = runnable \ {STTask}
  /\ UNCHANGED <<phase, lockVars, callVars, masterBus, slaveBus, waitVars, memVars, cfgVars, dualVars, written, strobeAge, monVars,
                 stCfg, string, pktLeft, firstword, on, off, gap_i, stBus, sinkVars, stHist>>

\* _wait_ready at the clock edge: wait for the settle point.
RdyEdge ==
  /\ st_pc = "rdy_edge" /\ phase = "edge" /\ STTask \in runnable
  /\ st_pc' = "rdy_ro"
  /\ runnable' = runnable \ {STTask}
  /\ UNCHANGED <<phase, lockVars, callVars, masterBus, slaveBus, waitVars, memVars, cfgVars, dualVars, written, strobeAge, monVars,
                 stCfg, string, pktLeft, firstword, on, off, gap_i, stBus, sinkVars, stHist>>

\* The trailing edge: valid low; _send_string also drives endofpacket low.
TailEdge ==
  /\ st_pc = "tail" /\ phase = "edge" /\ STTask \in runnable
  /\ valid' = 0
  /\ endofpacket' = IF kind = "string" THEN 0 ELSE endofpacket
  /\ st_pc' = "done"
  /\ runnable' = runnable \ {STTask}
  /\ UNCHANGED <<phase, lockVars, callVars, masterBus, slaveBus, waitVars, memVars, cfgVars, dualVars, written, strobeAge, monVars,
                 stCfg, string, pktLeft, firstword, on, off, gap_i,
                 st_data, startofpacket, empty, sinkVars, stHist>>

\* The sink drives ready, any value, once per clock edge.
SinkDrive ==
  /\ pcSink = "edge" /\ phase = "edge" /\ SinkTask \in runnable
  /\ ready' \in {0, 1}
  /\ runnable' = runnable \ {SinkTask}
  /\ UNCHANGED <<phase, lockVars, callVars, masterBus, slaveBus, waitVars, memVars, cfgVars, dualVars, written, strobeAge, monVars,
                 stCfg, stLocal, stBus, pcSink, stHist>>

(***************************************************************************)
(* tests/test_cases/issue_348: a clock generator and two monitors that     *)
(* wait in a loop on the same edge of the same signal.  Within a time step *)
(* the tasks whose Timer fired run first, then the value written to the    *)
(* signal is applied, and a change of value is an edge that resumes the    *)
(* tasks waiting on it (scheduler, modelled from the specification,        *)
(* section 4.1).                                                           *)
(***************************************************************************)
\* DualMonitor.start: clock_edges = 10
clock_edges == 10
\* clock_gen: yield Timer(500)
HalfPeriod == 500
\* DualMonitor.start: yield Timer(10000)
StartDelay == 10000

Monitors == {0, 1}

\* The kind of edge a change of the signal from a to b is.
EdgeOf(a, b) == IF a = 0 /\ b = 1 THEN "rising" ELSE "falling"

\* RisingEdge, FallingEdge, Edge: the trigger fires on an edge of kind e.
Matches(e) == edge_type = "either" \/ edge_type = e

mon_once(i) == armed

\* signal_mon, "while True": the monitor waits for the next edge again.
mon_rearm(i) == armed \cup {i}

\* start() up to "yield Timer(10000)": fork clock_gen, which writes 0 and waits
\* half a period, and the two monitors, which wait for their first edge.
MonStart ==
  /\ startPc = "init"
  /\ startPc' = "timer"
  /\ genPc' = "low" /\ genX' = 0 /\ clkNext' = 0
  /\ armed' = Monitors
  /\ UNCHANGED <<now, clk, edge_type, monitor_edges, monRun, timerRun, occurred>>
  /\ UNCHANGED <<schedVars, lockVars, callVars, masterBus, slaveBus, waitVars, memVars, cfgVars, dualVars, written, strobeAge, stVars>>

\* clock_gen resumed by its Timer: the second half of the cycle, or the next
\* iteration of "for x in range(num)".
GenStep ==
  /\ "gen" \in timerRun
  /\ timerRun' = timerRun \ {"gen"}
  /\ IF genPc = "low"
       THEN /\ clkNext' = 1
            /\ genPc' = "high"
            /\ UNCHANGED genX
       ELSE /\ genX' = genX + 1
            /\ IF genX + 1 < clock_edges
                 THEN clkNext' = 0 /\ genPc' = "low"
                 ELSE genPc' = "done" /\ UNCHANGED clkNext
  /\ UNCHANGED <<now, clk, edge_type, monitor_edges, armed, monRun, startPc, occurred>>
  /\ UNCHANGED <<schedVars, lockVars, callVars, masterBus, slaveBus, waitVars, memVars, cfgVars, dualVars, written, strobeAge, stVars>>

\* The written value takes effect once the resumed tasks have run; a change of
\* value is an edge, which resumes every task waiting on an edge of its kind.
ApplyWrite ==
  /\ timerRun = {} /\ monRun = {} /\ clkNext # None
  /\ startPc \in {"timer", "passed", "failed"}
  /\ clk' = clkNext
  /\ clkNext' = None
  /\ IF clk # clkNext /\ Matches(EdgeOf(clk, clkNext))
       THEN /\ monRun' = armed
            /\ armed' = {}
            /\ occurred' = occurred + 1
       ELSE UNCHANGED <<monRun, armed, occurred>>
  /\ UNCHANGED <<now, edge_type, monitor_edges, timerRun, genPc, genX, startPc>>
  /\ UNCHANGED <<schedVars, lockVars, callVars, masterBus, slaveBus, waitVars, memVars, cfgVars, dualVars, written, strobeAge, stVars>>

\* signal_mon resumed by its edge: count it and wait for the next one.
MonResume(i) ==
  /\ i \in monRun
  /\ monRun' = monRun \ {i}
  /\ monitor_edges' = [monitor_edges EXCEPT ![i] = @ + 1]
  /\ armed' = mon_rearm(i)
  /\ UNCHANGED <<now, clk, clkNext, edge_type, timerRun, genPc, genX, startPc, occurred>>
  /\ UNCHANGED <<schedVars, lockVars, callVars, masterBus, slaveBus, waitVars, memVars, cfgVars, dualVars, written, strobeAge, stVars>>

\* The tasks whose Timer expires at time t.
TimerDue(t) ==
  (IF genPc \in {"low", "high"} THEN {"gen"} ELSE {})
    \cup (IF startPc = "timer" /\ t = StartDelay THEN {"start"} ELSE {})

\* Time advances to the next Timer once nothing is left to do in this step.
MonAdvance ==
  /\ timerRun = {} /\ monRun = {} /\ clkNext = None
  /\ startPc = "timer"
  /\ now' = now + HalfPeriod
  /\ timerRun' = TimerDue(now + HalfPeriod)
  /\ UNCHANGED <<clk, clkNext, edge_type, monitor_edges, armed, monRun, genPc, genX, startPc, occurred>>
  /\ UNCHANGED <<schedVars, lockVars, callVars, masterBus, slaveBus, waitVars, memVars, cfgVars, dualVars, written, strobeAge, stVars>>

\* start() after its Timer: "if not mon: raise TestFailure".
StartCheck ==
  /\ "start" \in timerRun
  /\ timerRun' = timerRun \ {"start"}
  /\ startPc' = IF \E i \in Monitors : monitor_edges[i] = 0 THEN "failed" ELSE "passed"
  /\ UNCHANGED <<now, clk, clkNext, edge_type, monitor_edges, armed, monRun, genPc, genX, occurred>>
  /\ UNCHANGED <<schedVars, lockVars, callVars, masterBus, slaveBus, waitVars, memVars, cfgVars, dualVars, written, strobeAge, stVars>>

\* No monitor test in progress.
MonIdle ==
  /\ now = 0 /\ clk = 0 /\ clkNext = None /\ edge_type = "rising"
  /\ monitor_edges = [i \in Monitors |-> 0]
  /\ armed = {} /\ monRun = {} /\ timerRun = {}
  /\ genPc = "off" /\ genX = 0 /\ startPc = "off" /\ occurred = 0

\* The three tests, on a signal that is 0 or 1 when the test starts.
MonInit ==
  /\ now = 0 /\ clk \in {0, 1} /\ clkNext = None
  /\ edge_type \in {"rising", "falling", "either"}
  /\ monitor_edges = [i \in Monitors |-> 0]
  /\ armed = {} /\ monRun = {} /\ timerRun = {}
  /\ genPc = "off" /\ genX = 0 /\ startPc = "init" /\ occurred = 0

(***************************************************************************)
(* Initial states and specifications                                       *)
(***************************************************************************)
\* No streaming driver in use.
STIdle ==
  /\ kind = "string" /\ sync = TRUE /\ bus_width = 1 /\ hasReady = FALSE
  /\ readyLatency = 0
  /\ sent = <<>> /\ string = <<>> /\ pktLeft = 0
  /\ on = OnTrue /\ off = 0

\* The streaming bus and driver before a send.  The driver never looks at a
\* byte, so the bytes are tagged 1..n by position: a lost, repeated or
\* misplaced byte shows in what the sink takes.
STCommon ==
  /\ st_pc = "idle" /\ firstword = TRUE /\ gap_i = 0
  /\ valid = 0 /\ st_data = <<>> /\ startofpacket = 0 /\ endofpacket = 0 /\ empty = 0
  /\ received = <<>> /\ lowRun = 0
  /\ ready \in (IF hasReady THEN {0, 1} ELSE {0})
  /\ pcSink = IF hasReady THEN "edge" ELSE "off"

STInit ==
  /\ kind \in {"string", "iterable"} /\ sync \in BOOLEAN /\ hasReady \in BOOLEAN
  \* __init__ stores whatever config it is given; the default is 0
  /\ readyLatency \in 0..MaxReadyLatency
  /\ bus_width \in (IF kind = "string" THEN 1..MaxWidth ELSE {1})
  /\ string \in (IF kind = "string" THEN {[i \in 1..n |-> i] : n \in 0..MaxLen} ELSE {<<>>})
  /\ sent = string
  /\ pktLeft \in (IF kind = "string" THEN {0} ELSE 0..MaxWords)
  /\ on \in {OnTrue} \cup (0..MaxOn)
  /\ off \in (IF on = OnTrue THEN {0} ELSE 0..MaxOff)

InitCommon ==
  /\ phase = "nts" /\ runnable = {}
  /\ signals \in SUBSET OptionalSignals
  /\ busy = FALSE /\ fired = FALSE
  /\ pc = [c \in Callers |-> "idle"]
  /\ op = [c \in Callers |-> NoOp]
  /\ data = [c \in Callers |-> Undriven]
  /\ expect = [c \in Callers |-> None]
  /\ strobeAge = [c \in Callers |-> 0]
  /\ lastWrite = [a \in Addr |-> None]
  /\ address = 0 /\ read = 0 /\ write = 0
  /\ writedata = Undriven /\ readdata = Undriven /\ readdatavalid = 0
  /\ waitrequest = 0
  /\ mem = <<>> /\ responses = <<>> /\ ages = <<>> /\ drivenAge = None
  /\ warned = 0
  /\ readlatency_min \in 0..MaxLatency
  /\ readlatency_max \in readlatency_min..MaxLatency
  \* AvalonMemory.__init__ raises TestError without readdata and writedata
  /\ pcMem = IF readable \/ writeable THEN "edge" ELSE "none"

\* AvalonMaster and AvalonMemory on one bus and clock.
Init ==
  /\ MonIdle /\ DualIdle
  /\ InitCommon /\ STIdle /\ STCommon
  /\ readlatency_min = DefaultLatency /\ readlatency_max = DefaultLatency
  /\ pcEnv = "off"
  /\ pcSlave = IF "waitrequest" \in signals THEN "edge" ELSE "off"

Next ==
  \/ Tick
  \/ \E c \in Callers, a \in Addr : ReadCall(c, a)
  \/ \E c \in Callers, a \in Addr, v \in Val : WriteCall(c, a, v)
  \/ \E c \in Callers : LockResume(c)
  \/ \E c \in Callers : ReadEdge1(c)
  \/ \E c \in Callers : ReadEdge2(c)
  \/ \E c \in Callers : ReadSample(c)
  \/ \E c \in Callers : ReadFinish(c)
  \/ \E c \in Callers : WriteEdge1(c)
  \/ \E c \in Callers : WriteEdge2(c)
  \/ \E c \in Callers : WaitSample(c)
  \/ \E c \in Callers : WaitEdge(c)
  \/ \E c \in Callers : WaitReturn(c)
  \/ SlaveDrive
  \/ MemEdge
  \/ MemSettle

Spec == Init /\ [][Next]_vars

\* AvalonMaster and AvalonMemory on a bus that has every signal read() and
\* write() touch and no waitrequest.  The simulator keeps running: every
\* resumed task runs and time advances.
InitLive ==
  /\ Init
  /\ signals = {"read", "write", "readdata", "writedata"}

\* Next less the steps of _wait_for_nsignal and of the slave logic.
NextLive ==
  \/ Tick
  \/ \E c \in Callers, a \in Addr : ReadCall(c, a)
  \/ \E c \in Callers, a \in Addr, v \in Val : WriteCall(c, a, v)
  \/ \E c \in Callers : LockResume(c)
  \/ \E c \in Callers : ReadEdge1(c)
  \/ \E c \in Callers : ReadEdge2(c)
  \/ \E c \in Callers : ReadSample(c)
  \/ \E c \in Callers : ReadFinish(c)
  \/ \E c \in Callers : WriteEdge1(c)
  \/ \E c \in Callers : WriteEdge2(c)
  \/ MemEdge
  \/ MemSettle

SpecLive == InitLive /\ [][NextLive]_vars /\ WF_vars(NextLive)

\* AvalonMemory driven by a DUT master.
InitMem ==
  /\ MonIdle /\ DualIdle
  /\ InitCommon /\ STIdle /\ STCommon
  /\ "waitrequest" \notin signals
  /\ pcEnv = "edge" /\ pcMem = "edge" /\ pcSlave = "off"

NextMem == Tick \/ EnvDrive \/ MemEdge \/ MemSettle

SpecMem == InitMem /\ [][NextMem]_vars

\* AvalonSTPkts sending one packet to a clocked sink.
InitST ==
  /\ MonIdle /\ DualIdle
  /\ InitCommon /\ STInit /\ STCommon
  /\ signals = {}
  /\ readlatency_min = DefaultLatency /\ readlatency_max = DefaultLatency
  /\ pcEnv = "off" /\ pcSlave = "off"

NextST == Tick \/ SendCall \/ ClkEdge \/ GapEdge \/ RdyRO \/ RdyEdge \/ TailEdge \/ SinkDrive

SpecST == InitST /\ [][NextST]_vars

\* A dual-port RAM: two AvalonMemory instances on one dictionary, on the two
\* ports of a DUT master, with a fixed read latency of 0 to MaxLatency.
InitDual ==
  /\ MonIdle /\ DualBus
  /\ InitCommon /\ STIdle /\ STCommon
  /\ signals = {"read", "write", "readdata", "writedata"}
  /\ pcEnv = "off" /\ pcMem = "edge" /\ pcSlave = "off"
  /\ pcEnvB = "edge" /\ pcMemB = "edge"
  /\ sharedB = TRUE
  /\ readlatency_min = readlatency_max
  /\ reqLeft = MaxRequests

NextDual == Tick \/ EnvDriveDual \/ MemEdge \/ MemSettle \/ MemEdgeB \/ MemSettleB

SpecDual == InitDual /\ [][NextDual]_vars

\* issue_348: the clock generator and the two monitors.
InitMon ==
  /\ MonInit /\ DualIdle
  /\ InitCommon /\ STIdle /\ STCommon
  /\ signals = {}
  /\ readlatency_min = DefaultLatency /\ readlatency_max = DefaultLatency
  /\ pcEnv = "off" /\ pcSlave = "off"

NextMon ==
  \/ MonStart
  \/ GenStep
  \/ ApplyWrite
  \/ \E i \in Monitors : MonResume(i)
  \/ MonAdvance
  \/ StartCheck

SpecMon == InitMon /\ [][NextMon]_vars

(***************************************************************************)
(* Properties                                                              *)
(***************************************************************************)
\* A caller between a completed _acquire_lock and its _release_lock.
InCS(c) ==
  pc[c] \in {"r_edge1", "r_wro", "r_wedge", "r_wnts", "r_edge2", "r_ro", "r_nts",
             "w_edge1", "w_wro", "w_wedge", "w_wnts", "w_edge2"}

Connected == {"read", "write", "readdata", "writedata"} \subseteq signals

\* C1: lock mutual exclusion: at most one caller is between a completed
\* _acquire_lock and its matching _release_lock at any time.
C1_MutualExclusion == Cardinality({c \in Callers : InCS(c)}) <= 1

\* C2: memory-mapped round trip: on a fully connected bus with the responder at
\* its default latency, a read of A that follows a completed write(A, V), with
\* no other write to A since, returns V.
C2_RoundTrip ==
  \A c \in Callers :
    (Connected /\ pc[c] = "done" /\ op[c].kind = "read" /\ expect[c] # None)
      => data[c] = expect[c]

\* C3: latency upper bound: a response is driven with readdatavalid high no
\* later than readlatency_max clock cycles after the cycle in which its read
\* strobe was observed.
C3_LatencyUpperBound == drivenAge # None => drivenAge <= readlatency_max

\* C4: latency lower bound: a response is never driven with readdatavalid high
\* earlier than readlatency_min clock cycles after the cycle in which its read
\* strobe was observed.
C4_LatencyLowerBound == drivenAge # None => drivenAge >= readlatency_min

C4_Witness ==
  /\ readlatency_min = MaxLatency
  /\ readdatavalid = 1
  /\ drivenAge = readlatency_min + 1

\* The number of words a string of n bytes takes on a bus of w bytes.
CeilDiv(n, w) == (n + w - 1) \div w

\* C5: packet framing of _send_string: the sink takes the words of a non-empty
\* string of n bytes in order, never more than ceil(n / w); startofpacket is 1 on
\* the first word only, endofpacket is 1 on the last word only, empty is 0 on
\* every word but the last and w minus the bytes of the last word on the last;
\* when the send is done exactly ceil(n / w) words were taken.
C5_Framing ==
  (kind = "string" /\ sent # <<>>) =>
    LET n == Len(sent)
        w == bus_width
        k == CeilDiv(n, w)
    IN /\ Len(received) <= k
       /\ st_pc = "done" => Len(received) = k
       /\ \A i \in 1..Len(received) :
            /\ received[i].startofpacket = (IF i = 1 THEN 1 ELSE 0)
            /\ received[i].endofpacket = (IF i = k THEN 1 ELSE 0)
            /\ received[i].empty = (IF i = k THEN w - (n - (k - 1) * w) ELSE 0)

C5_Witness ==
  /\ kind = "string" /\ st_pc = "done"
  /\ bus_width = 4 /\ Len(sent) = 9
  /\ Len(received) = 3
  /\ received[1].startofpacket = 1 /\ received[1].empty = 0
  /\ received[3].endofpacket = 1 /\ received[3].empty = 3

\* The bytes a receiver rebuilds from the words it took: each word's byte lanes
\* less its empty ones.
RECURSIVE Rebuild(_)
Rebuild(ws) ==
  IF ws = <<>> THEN <<>>
  ELSE SubSeq(Head(ws).data, 1, bus_width - Head(ws).empty) \o Rebuild(Tail(ws))

IsPrefix(p, q) == Len(p) <= Len(q) /\ SubSeq(q, 1, Len(p)) = p

\* C6: packet data round trip: under every on/off sequence and every behaviour
\* of ready, the bytes rebuilt from the words the sink took are at any time a
\* prefix of the string sent, and the whole string once the send is done.
C6_PacketRoundTrip ==
  kind = "string" =>
    /\ IsPrefix(Rebuild(received), sent)
    /\ st_pc = "done" => Rebuild(received) = sent

C6_Witness ==
  /\ kind = "string" /\ st_pc = "done" /\ hasReady
  /\ bus_width = 2 /\ Len(sent) = MaxLen
  /\ Len(received) = CeilDiv(MaxLen, 2)
  /\ Rebuild(received) = sent
  /\ on = 0

\* A step that drives a word with valid high.
DrivesWord == valid' = 1 /\ (string' # string \/ pktLeft' # pktLeft)

\* C7: idle injection, in _send_string and _send_iterable: a word driven when
\* the on-budget was exhausted follows at least the drawn number of off cycles
\* with valid low, and valid is low while the driver waits inside the gap.
C7_IdleInjection ==
  [][/\ (DrivesWord /\ on = 0) => lowRun >= off
     /\ st_pc' = "gap" => valid' = 0
    ]_vars

C7_Witness ==
  /\ kind = "iterable"
  /\ Len(received) >= 1
  /\ valid = 1 /\ st_pc = "tail"
  /\ lowRun = MaxOff

\* C8: error release of the lock: once a read or write that held the lock has
\* been aborted by an error and no other caller is inside a transaction, the
\* lock is free.
C8_ErrorReleasesLock ==
  ((\E c \in Callers : pc[c] = "failed") /\ (\A c \in Callers : ~InCS(c))) => ~busy

\* C9: a read without a read signal, or a write without a write signal, fails
\* straight from the call, and the failed call changes neither the busy flag,
\* the busy event, any bus signal, nor any other task's position or wake-up;
\* a call fails this way exactly when its signal is absent.
C9_CapabilityErrorLeavesState ==
  [][\A c \in Callers :
       /\ pc'[c] = "r_caperror" /\ pc[c] # "r_caperror"
            => pc[c] = "idle" /\ "read" \notin signals
       /\ pc'[c] = "w_caperror" /\ pc[c] # "w_caperror"
            => pc[c] = "idle" /\ "write" \notin signals
       /\ pc'[c] \in {"r_caperror", "w_caperror"} /\ pc[c] = "idle"
            => /\ UNCHANGED <<lockVars, masterBus, slaveBus, waitVars, schedVars, memVars>>
               /\ \A q \in Callers \ {c} : pc'[q] = pc[q]
       /\ pc[c] = "idle" /\ pc'[c] \notin {"idle", "r_caperror", "w_caperror"}
            => IF op'[c].kind = "read" THEN "read" \in signals ELSE "write" \in signals
    ]_vars

C9_Witness ==
  \E c, q, h \in Callers :
    /\ pc[c] = "r_caperror"
    /\ pc[q] = "lockwait"
    /\ InCS(h) /\ busy

\* C10: an uninitialised read is recoverable: the settle step that observes a
\* read strobe for a never-written address logs exactly one warning, appends
\* the undefined marker, creates no store entry (the store changes only by a
\* write strobe of the same cycle) and leaves the responder waiting for the
\* next edge; no other settle step logs a warning; a popped undefined marker is
\* driven as all-X readdata with readdatavalid high.
C10_UninitialisedRead ==
  [][/\ (pcMem = "ro" /\ pcMem' # "ro")
          => IF readable /\ "read" \in signals /\ read = 1 /\ address \notin DOMAIN mem
               THEN /\ warned' = 1
                    /\ responses' # <<>> /\ responses'[Len(responses')] = Undefined
                    /\ Len(responses') > Len(responses)
                    /\ write = 0 => mem' = mem
                    /\ DOMAIN mem' \subseteq DOMAIN mem \cup {a \in {address} : write = 1}
                    /\ (writeable => "write" \in signals) => pcMem' = "edge"
               ELSE warned' = 0
     /\ (pcMem = "edge" /\ pcMem' # "edge" /\ responses # <<>> /\ Head(responses) = Undefined)
          => readdata' = XVal /\ readdatavalid' = 1 /\ pcMem' = "ro"
    ]_vars

C10_Witness ==
  /\ mem = <<>>
  /\ warned = 1
  /\ readdatavalid = 1 /\ readdata = XVal
  /\ responses # <<>> /\ responses[Len(responses)] = Undefined
  /\ pcMem = "edge"

\* C11: several waiters on one edge: every occurrence of the monitored kind of
\* edge resumes both monitors (each has counted every edge that occurred, or is
\* about to run for the last one), and once the clock generator has produced its
\* edges no monitor's count is zero, so start() never raises TestFailure.
C11_AllWaitersResumed ==
  startPc # "off" =>
    /\ \A i \in Monitors :
         monitor_edges[i] + (IF i \in monRun THEN 1 ELSE 0) = occurred
    /\ (genPc = "done" /\ monRun = {}) => \A i \in Monitors : monitor_edges[i] > 0
    /\ startPc # "failed"

C11_Witness ==
  /\ startPc = "passed" /\ genPc = "done"
  /\ edge_type = "either"
  /\ \A i \in Monitors : monitor_edges[i] = 2 * clock_edges - 1

\* The trigger a runnable task was resumed by.
ResumedBy(t) ==
  IF t \in Callers THEN CallerTrigger(t)
  ELSE IF t = MemTask THEN pcMem
  ELSE IF t = SlaveTask THEN pcSlave
  ELSE IF t = EnvTask THEN pcEnv
  ELSE "none"

\* A caller that holds its strobe asserted through the settle point of this edge.
ReadStrobing(c) == pc[c] \in {"r_edge2", "r_wro", "r_wnts", "r_wedge"}
WriteStrobing(c) == pc[c] \in {"w_edge2", "w_wro", "w_wnts", "w_wedge"}

\* No other caller is driving the bus or has left it in an error.
SoleDriver(c) ==
  \A q \in Callers \ {c} : pc[q] \in {"idle", "lockwait", "done", "r_caperror", "w_caperror"}

\* C12: edge before settle: at a settle point every task still to run waits on
\* the settle point (the tasks resumed by the clock edge of the step have all
\* run), and when AvalonMemory samples at the settle point of an edge it sees
\* what the one AvalonMaster transaction on the bus has driven on that edge: a
\* read strobe with its address appends the response for that address, a
\* write strobe stores the caller's value at its address.
C12_EdgeBeforeSettle ==
  [][/\ Settle' => \A t \in runnable' : ResumedBy(t)' = "ro"
     /\ \A c \in Callers :
          (phase = "ro" /\ pcMem = "ro" /\ pcMem' = "edge" /\ SoleDriver(c)) =>
            /\ (ReadStrobing(c) /\ readable) =>
                  /\ Len(responses') > Len(responses)
                  /\ responses'[Len(responses')] = lookup(op[c].addr)
            /\ (WriteStrobing(c) /\ writeable) =>
                  /\ op[c].addr \in DOMAIN mem'
                  /\ mem'[op[c].addr] = op[c].val
    ]_vars

C12_Witness ==
  \E c \in Callers :
    /\ phase = "ro" /\ pcMem = "edge" /\ MemTask \notin runnable
    /\ pc[c] = "r_edge2" /\ op[c].addr = 1
    /\ 1 \in DOMAIN mem /\ mem[1] = 1
    /\ responses # <<>> /\ responses[Len(responses)] = 1

\* C13: post-send idle state: once a send has completed, of a byte string or of
\* a word sequence, valid and endofpacket are both low.
C13_PostSendIdle == st_pc = "done" => (valid = 0 /\ endofpacket = 0)

\* C14: unsupported ready latency is flagged: with a readyLatency other than 0
\* configured and a ready signal on the bus, no word is ever transferred and no
\* send completes.
C14_ReadyLatencyFlagged ==
  (readyLatency # 0 /\ hasReady) => (received = <<>> /\ st_pc # "done")

\* The driver is inside _wait_ready for the word it has driven.
InWaitReady == st_pc \in {"rdy_ro", "rdy_edge"}

\* C15: ready-gated advance: on a bus with a ready signal every driven word is
\* followed by _wait_ready; while the driver is in it, valid stays high and
\* data, startofpacket, endofpacket, empty and valid do not change; it leaves
\* it only at a settle point at which ready is high; after a settle point that
\* saw ready low the next check is after the next rising edge; and the next word
\* or the trailing de-assert is driven on a clock edge after that.
C15_ReadyGatedAdvance ==
  [][hasReady =>
       /\ DrivesWord => st_pc' = "rdy_ro"
       /\ InWaitReady => (valid = 1 /\ stBus' = stBus)
       /\ (InWaitReady /\ ~InWaitReady') => (st_pc = "rdy_ro" /\ Settle /\ ready = 1)
       /\ (st_pc = "rdy_ro" /\ st_pc' = "rdy_edge") => (Settle /\ ready = 0)
       /\ (st_pc = "rdy_edge" /\ st_pc' # "rdy_edge") => (phase = "edge" /\ st_pc' = "rdy_ro")
       /\ (valid = 1 /\ stBus' # stBus) => (phase = "edge" /\ st_pc \in {"clk", "tail"})
    ]_vars

C15_Witness ==
  /\ hasReady /\ kind = "string"
  /\ st_pc = "rdy_edge" /\ valid = 1 /\ ready = 0
  /\ Len(received) >= 1
  /\ st_data # received[Len(received)].data

\* _respond has just sampled a read strobe and a write strobe in one cycle.
SampledReadAndWrite ==
  /\ phase = "ro" /\ pcMem = "edge" /\ MemTask \notin runnable
  /\ readable /\ writeable /\ read = 1 /\ write = 1

\* C16 as stated: same-cycle read and write to one address: the response
\* enqueued for the read is the value written in that cycle.
C16_WriteBeforeRead ==
  SampledReadAndWrite => responses[Len(responses)] = writedata

\* C16, amended: same-cycle read and write to one address: _respond appends the
\* read's response before it processes the write, so the response enqueued is
\* what the store held before the cycle (the undefined marker for a never
\* written address), and the store holds the written value afterwards.
C16_ReadBeforeWrite ==
  [][(pcMem = "ro" /\ pcMem' = "edge" /\ readable /\ writeable /\ read = 1 /\ write = 1) =>
       /\ Len(responses') > Len(responses)
       /\ responses'[Len(responses')] = lookup(address)
       /\ mem'[address] = writedata
    ]_vars

C16_Witness ==
  /\ SampledReadAndWrite
  /\ mem[address] = writedata
  /\ responses[Len(responses)] \in Val
  /\ responses[Len(responses)] # writedata

\* The step in which caller c executes "data = self.bus.readdata.value".
Samples(c) == pc[c] = "r_ro" /\ pc'[c] \in {"r_nts", "failed"}

\* C17: master read sampling order: read() takes its sample at a settle point,
\* never in an edge phase, after it has de-asserted its strobe (the strobe is
\* low when no other caller drives the bus), at least one clock edge after the
\* edge on which it asserted the strobe and exactly one when the bus has no
\* waitrequest; the value returned is the settled readdata; the lock is not
\* released by the sample but by the step after it, at the next time step.
C17_ReadSamplingOrder ==
  [][\A c \in Callers :
       /\ Samples(c) =>
            /\ Settle /\ phase # "edge"
            /\ strobeAge[c] >= 1
            /\ "waitrequest" \notin signals => strobeAge[c] = 1
            /\ SoleDriver(c) => read = 0
            /\ pc'[c] = "r_nts" => data'[c] = readdata
            /\ busy' = busy /\ fired' = fired
       /\ data'[c] # data[c] => Samples(c)
       /\ (op[c].kind = "read" /\ pc[c] # "done" /\ pc'[c] = "done") =>
            /\ pc[c] = "r_nts" /\ phase = "nts"
            /\ data'[c] = data[c]
    ]_vars

C17_Witness ==
  \E c \in Callers :
    /\ pc[c] = "done" /\ op[c].kind = "read"
    /\ "waitrequest" \in signals
    /\ strobeAge[c] = MaxStrobeAge
    /\ data[c] \in Val

\* The settle steps of the two instances that run to the end of the loop body.
SettlesA == pcMem = "ro" /\ pcMem' = "edge"
SettlesB == pcMemB = "ro" /\ pcMemB' = "edge"

\* The slot a read of address a must enqueue: the last value written to a.
LastWritten(a) == IF written[a] = None THEN Undefined ELSE written[a]

\* C18: undelayed writes through a shared store: for every read latency, the
\* settle step in which either instance observes the write strobe puts
\* writedata into the store at the address, and the store changes in no other
\* step; a read observed by either instance, in a cycle in which the other
\* instance is not writing that address, enqueues the last value written to the
\* address by either instance (the undefined marker when there was none).
C18_SharedStore ==
  [][sharedB =>
       /\ (SettlesA /\ writeable /\ write = 1) =>
            (address \in DOMAIN mem' /\ mem'[address] = writedata)
       /\ (SettlesB /\ writeable /\ writeB = 1) =>
            (addressB \in DOMAIN mem' /\ mem'[addressB] = writedataB)
       /\ mem' # mem => \/ SettlesA /\ write = 1
                        \/ SettlesB /\ writeB = 1
       /\ (SettlesA /\ readable /\ read = 1 /\ ~(writeB = 1 /\ addressB = address)) =>
            /\ Len(responses') > Len(responses)
            /\ responses'[Len(responses')] = LastWritten(address)
       /\ (SettlesB /\ readable /\ readB = 1 /\ ~(write = 1 /\ address = addressB)) =>
            /\ Len(responsesB') > Len(responsesB)
            /\ responsesB'[Len(responsesB')] = LastWritten(addressB)
    ]_vars

C18_Witness ==
  /\ sharedB /\ readlatency_max = MaxLatency
  /\ phase = "ro" /\ pcMemB = "edge" /\ MemTaskB \notin runnable
  /\ readB = 1 /\ writedataB = Undriven
  /\ write = 0
  /\ responsesB # <<>> /\ responsesB[Len(responsesB)] = 1

\* C19: lock progress: the event is never set while the lock is held (a caller
\* that finds the lock held registers on an event that is clear), and if every
\* caller that passes _acquire_lock comes to call _release_lock, then every
\* caller suspended in _acquire_lock comes to pass it.
C19_LockProgress ==
  /\ [](busy => ~fired)
  /\ (\A q \in Callers : [](InCS(q) => <>(pc[q] = "done")))
       => (\A c \in Callers : [](pc[c] \in {"lockwait", "lockwoken"} => <>InCS(c)))

C19_Witness ==
  \E c, q, h \in Callers :
    /\ c # q
    /\ pc[h] = "done" /\ ~busy /\ fired
    /\ pc[c] = "lockwoken" /\ pc[q] = "lockwoken"
    /\ {c, q} \subseteq runnable

\* The responses of a queue, in order: its slots less the empty ones.
Pending(q) == SelectSeq(q, LAMBDA x : x # None)

\* _respond observes the read strobe in this step.
ObservesRead ==
  /\ pcMem = "ro" /\ pcMem' # "ro"
  /\ readable /\ "read" \in signals /\ read = 1

\* C20: one response per read, in order: each cycle in which _respond observes
\* the read strobe adds exactly one response behind those pending, and no
\* other step adds one; a clock edge drives readdatavalid high exactly when
\* the popped slot holds a response, which is then the oldest pending one and
\* leaves the queue; readdatavalid is low when the popped slot is empty or the
\* queue is empty, and changes at no other step, whatever latencies are drawn.
C20_OneResponsePerRead ==
  [][ /\ ObservesRead => Pending(responses') = Append(Pending(responses), lookup(address))
      /\ (~ObservesRead /\ ~(pcMem = "edge" /\ pcMem' = "ro"))
           => responses' = responses /\ readdatavalid' = readdatavalid
      /\ ObservesRead => readdatavalid' = readdatavalid
      /\ (pcMem = "edge" /\ pcMem' = "ro") =>
           IF responses # <<>> /\ Head(responses) # None
             THEN /\ readdatavalid' = 1
                  /\ readdata' = drive(Head(Pending(responses)))
                  /\ Pending(responses') = Tail(Pending(responses))
             ELSE /\ readdatavalid' = 0
                  /\ Pending(responses') = Pending(responses)
    ]_vars

C20_Witness ==
  /\ pcMem = "ro" /\ MemTask \notin runnable
  /\ readdatavalid = 1 /\ readdata \in Val
  /\ Pending(responses) # <<>>
  /\ Head(Pending(responses)) \in Val \ {readdata}
  /\ \E j \in 1..Len(responses) : responses[j] = None

\* C21: bounded response queue: for readlatency_min <= readlatency_max the
\* response queue of AvalonMemory never holds more than readlatency_max + 1
\* entries, under any pattern of read strobes and any drawn latencies.
C21_BoundedQueue ==
  readlatency_min <= readlatency_max => Len(responses) <= readlatency_max + 1

\* Back-to-back reads with a latency range of more than one value: the queue
\* is at the bound and every slot of it holds a response.
C21_Witness ==
  /\ readlatency_min < readlatency_max /\ readlatency_max = MaxLatency
  /\ pcMem = "edge" /\ phase = "ro" /\ read = 1
  /\ Len(responses) = readlatency_max + 1
  /\ \A j \in 1..Len(responses) : responses[j] # None
====
